---- MODULE Spec2Model ----
(***************************************************************************)
(* Model of Code.py: the three mail tools (fetch_support_emails,           *)
(* generate_email_reply, send_email_tool) and the __main__ poll loop that  *)
(* hands the task "fetch the first unread support emails, generate polite  *)
(* replies, and send them back" to the manager agent, then sleeps.         *)
(*                                                                         *)
(* Text is modelled as sequences of one-character strings so that          *)
(* lower(), strip() and the substring test are computed, not assumed.      *)
(***************************************************************************)
EXTENDS Integers, Sequences, FiniteSets, TLC

\* ------------------------------------------------------------ bounds
\* Number of messages in the remote mailbox.
NumMsgs == 3
\* Largest explicit limit the agent passes to fetch_support_emails besides
\* the default; limits range over -1..MaxLimit and DefaultLimit.
MaxLimit == 2
\* Saturation of the per-message history counters.
CountCap == 2

\* ------------------------------------------------- program constants
\* fetch_support_emails(limit: int = 5); the task string says "first 5".
DefaultLimit == 5

\* time.sleep(60)
PollInterval == 60

Uids == 1..NumMsgs
Limits == ((-1)..MaxLimit) \cup {DefaultLimit}

\* ------------------------------------------------------------- text
UpperCase == << "A", "B", "C", "D", "E", "F", "G", "H", "I", "J", "K", "L", "M",
                "N", "O", "P", "Q", "R", "S", "T", "U", "V", "W", "X", "Y", "Z" >>
LowerCase == << "a", "b", "c", "d", "e", "f", "g", "h", "i", "j", "k", "l", "m",
                "n", "o", "p", "q", "r", "s", "t", "u", "v", "w", "x", "y", "z" >>

\* Upper-case letter -> its lower-case letter.
ToLower ==
    [c \in { UpperCase[i] : i \in 1..26 } |-> LowerCase[CHOOSE i \in 1..26 : UpperCase[i] = c]]

\* str.lower() on one character.
LowerChar(c) == IF c \in DOMAIN ToLower THEN ToLower[c] ELSE c

\* str.lower(): content.lower() at the keyword test.
Lower(s) == [i \in 1..Len(s) |-> LowerChar(s[i])]

\* Python's `word in text` for strings: word occurs as a contiguous slice.
Contains(s, w) ==
    \E i \in 1..(Len(s) - Len(w) + 1) : SubSeq(s, i, i + Len(w) - 1) = w

\* The keyword list ["help", "issue", "problem"].
Keywords ==
    { << "h", "e", "l", "p" >>,
      << "i", "s", "s", "u", "e" >>,
      << "p", "r", "o", "b", "l", "e", "m" >> }

Whitespace == { " ", "\n", "\t" }

\* str.strip(): drop leading and trailing whitespace.
RECURSIVE LStrip(_)
LStrip(s) ==
    IF s # << >> /\ Head(s) \in Whitespace THEN LStrip(Tail(s)) ELSE s

RECURSIVE RStrip(_)
RStrip(s) ==
    IF s # << >> /\ s[Len(s)] \in Whitespace
    THEN RStrip(SubSeq(s, 1, Len(s) - 1))
    ELSE s

Strip(s) == RStrip(LStrip(s))

\* The fixed reply returned when the model call fails.
FALLBACK ==
  << "T", "h", "a", "n", "k", " ", "y", "o", "u", " ", "f", "o",
     "r", " ", "r", "e", "a", "c", "h", "i", "n", "g", " ", "o",
     "u", "t", ".", " ", "W", "e", " ", "h", "a", "v", "e", " ",
     "r", "e", "c", "e", "i", "v", "e", "d", " ", "y", "o", "u",
     "r", " ", "e", "m", "a", "i", "l", " ", "a", "n", "d", " ",
     "w", "i", "l", "l", " ", "g", "e", "t", " ", "b", "a", "c",
     "k", " ", "t", "o", " ", "y", "o", "u", " ", "s", "o", "o",
     "n", "." >>


\* ---------------------------------------------------- configuration
\* The environment variables the module reads.
EnvNames ==
    { "EMAIL_USER", "EMAIL_PASS", "MODEL_API_KEY", "API_KEY", "TOGETHER_API_KEY",
      "MODEL_API_BASE", "MODEL_NAME" }

\* os.getenv of a variable that is not set (None).
Unset == "None"

\* A non-empty value the environment supplies for a variable.
Provided == "provided"

\* The environments the process can be started with.
Environments == [EnvNames -> { Unset, Provided }]

\* os.environ[...] = "..." at the top of the module.
Hardcoded ==
    [EMAIL_USER |-> "YOUR_MAIL", EMAIL_PASS |-> "EMAIL_PASSS",
     MODEL_API_KEY |-> "ENTER-API -KEY", MODEL_API_BASE |-> "API-BASE",
     MODEL_NAME |-> "LLM-MODEL"]

\* os.environ after the five assignments, which is what os.getenv then reads.
SetEnviron(e) ==
    [n \in EnvNames |-> IF n \in DOMAIN Hardcoded THEN Hardcoded[n] ELSE e[n]]

\* Python truth of a value read with os.getenv.
Truthy(v) == v # Unset /\ v # ""

\* The condition whose negation raises EnvironmentError.
ConfigOk(c) ==
    /\ Truthy(c["EMAIL_USER"])
    /\ Truthy(c["EMAIL_PASS"])
    /\ (Truthy(c["MODEL_API_KEY"]) \/ Truthy(c["API_KEY"]) \/ Truthy(c["TOGETHER_API_KEY"]))
    /\ Truthy(c["MODEL_API_BASE"])
    /\ Truthy(c["MODEL_NAME"])

\* ---------------------------------------------------------- mailbox
\* Sample (text, subject) pairs a mailbox message can carry:
\*   1  text "HeLp me", subject "hi"       keyword in the text, mixed case
\*   2  text "ok",      subject "Issue"    keyword only in the subject
\*   3  text "",        subject "PROBLEM"  no text, keyword in the subject
\*   4  text "hel p",   subject ""         no keyword anywhere
Samples ==
    << [text |-> << "H", "e", "L", "p", " ", "m", "e" >>, subject |-> << "h", "i" >>],
       [text |-> << "o", "k" >>, subject |-> << "I", "s", "s", "u", "e" >>],
       [text |-> << >>, subject |-> << "P", "R", "O", "B", "L", "E", "M" >>],
       [text |-> << "h", "e", "l", " ", "p" >>, subject |-> << >>] >>

\* A mailbox message as imap_tools presents it: uid, from_, subject, text.
Message(u, k) ==
    [uid |-> u, from_ |-> u, subject |-> Samples[k].subject, text |-> Samples[k].text]

VARIABLES
    env,       \* the environment the process was started with: name -> value
    config,    \* the module globals read with os.getenv at startup
    msgs,      \* the mailbox: uid -> the sample its message carries, in uid order
    seen,      \* the mailbox's \Seen flag per uid
    pc,        \* position of the __main__ loop / the manager's run
    fetchLimit, \* the limit the agent passed to the fetch of this cycle
    batch,     \* emails_to_reply returned by the last fetch of this cycle
    idx,       \* index in batch of the candidate being replied to
    reply,     \* reply text generated for batch[idx]
    errs,      \* logging.error lines of the current cycle, per call site
    outcome,   \* how the current / last manager_agent.run ended
    seen0,     \* the \Seen flags when the current cycle started
    done,      \* per batch position: what this cycle did with the candidate
    hist,      \* per uid, over all cycles: how often it was fetched, replied to, sent
    lastCall,  \* arguments and result of the most recent tool call
    slept      \* time the loop has slept since the last run ended

vars == << env, config, msgs, seen, pc, fetchLimit, batch, idx, reply, errs, outcome, seen0, done, hist, lastCall, slept >>

\* Mutant: the operands are swapped, content = msg.subject or msg.text.
ContentSubjectFirst(m) == IF m.subject # << >> THEN m.subject ELSE m.text

\* content = msg.text or msg.subject
Content(m) == IF m.text # << >> THEN m.text ELSE m.subject

\* Mutant: the keyword filter is dropped, every unread message is a candidate.
IsSupportUnfiltered(m) == TRUE

\* any(word in content.lower() for word in ["help", "issue", "problem"])
IsSupport(m) == \E w \in Keywords : Contains(Lower(Content(m)), w)

\* The dict appended to emails_to_reply (uid is kept to identify the message).
EmailDict(m) ==
    [uid |-> m.uid, from |-> m.from_, subject |-> m.subject, body |-> Content(m)]

\* mailbox.fetch(AND(seen=False)) is called without mark_seen, so imap_tools'
\* default applies: reading a message sets its \Seen flag on the server.
FetchMarksSeen == TRUE

\* Reading message u through mailbox.fetch.
ReadMessage(sn, u) == IF FetchMarksSeen THEN [sn EXCEPT ![u] = TRUE] ELSE sn

\* Mutant: the flag is written with False, which clears \Seen again.
FlagSeenCleared(sn, u) == [sn EXCEPT ![u] = FALSE]

\* mailbox.flag(msg.uid, "\\Seen", True)
FlagSeen(sn, u) == [sn EXCEPT ![u] = TRUE]

\* Mutant: the limit test is `count > limit`.
LimitReachedLate(count, limit) == count > limit

\* Mutant: a limit that is not positive is taken to mean no limit.
LimitReachedIfPositive(count, limit) == limit > 0 /\ count >= limit

\* if count >= limit: break
LimitReached(count, limit) == count >= limit

\* Where a connection or protocol error can interrupt a fetch: nowhere, at
\* login, while listing the unread uids, while reading message u, or while
\* flagging message u.
FailPoints ==
    { << "none", 0 >>, << "login", 0 >>, << "list", 0 >> }
        \cup { << "read", u >> : u \in Uids } \cup { << "flag", u >> : u \in Uids }

\* The for loop of fetch_support_emails from uid u on: sn is the mailbox's
\* \Seen flags, out is emails_to_reply (count = Len(out)).
RECURSIVE FetchLoop(_, _, _, _, _, _)
FetchLoop(mbox, u, sn, out, limit, fail) ==
    IF u > NumMsgs THEN [seen |-> sn, batch |-> out, error |-> FALSE]
    ELSE IF sn[u] THEN FetchLoop(mbox, u + 1, sn, out, limit, fail)
    ELSE IF fail = << "read", u >> THEN [seen |-> sn, batch |-> out, error |-> TRUE]
    ELSE LET sn1 == ReadMessage(sn, u) IN
         IF ~IsSupport(mbox[u]) THEN FetchLoop(mbox, u + 1, sn1, out, limit, fail)
         ELSE IF fail = << "flag", u >> THEN [seen |-> sn1, batch |-> out, error |-> TRUE]
         ELSE LET sn2 == FlagSeen(sn1, u)
                  out1 == Append(out, EmailDict(mbox[u]))
              IN  IF LimitReached(Len(out1), limit)
                  THEN [seen |-> sn2, batch |-> out1, error |-> FALSE]
                  ELSE FetchLoop(mbox, u + 1, sn2, out1, limit, fail)

\* Mutant: no try/except in fetch_support_emails, the error leaves the tool
\* and the partial batch is lost.
fetch_support_emails_raising(mbox, sn, limit, fail) ==
    LET r == IF fail \in { << "login", 0 >>, << "list", 0 >> }
             THEN [seen |-> sn, batch |-> << >>, error |-> TRUE]
             ELSE FetchLoop(mbox, 1, sn, << >>, limit, fail)
    IN  [seen |-> r.seen, batch |-> IF r.error THEN << >> ELSE r.batch,
         logged |-> 0, raised |-> r.error]

\* fetch_support_emails(limit): the whole call, try/except included.
fetch_support_emails(mbox, sn, limit, fail) ==
    LET r == IF fail \in { << "login", 0 >>, << "list", 0 >> }
             THEN [seen |-> sn, batch |-> << >>, error |-> TRUE]
             ELSE FetchLoop(mbox, 1, sn, << >>, limit, fail)
    IN  [seen |-> r.seen, batch |-> r.batch,
         logged |-> IF r.error THEN 1 ELSE 0, raised |-> FALSE]

\* ------------------------------------------------------ model endpoint
\* Texts the model endpoint can answer with.
Responses ==
    { << " ", "o", " ", "k", "\n" >>, << "o", " ", "k" >> }

\* What inference_model.generate(prompt) does: answer, or fail.
ModelOutcomes ==
    [ok : {TRUE}, response : Responses] \cup [ok : {FALSE}, response : {<< >>}]

\* Mutant: no try/except around the model call, its exception leaves the tool.
generate_email_reply_raising(email_body, o) ==
    IF o.ok
    THEN [reply |-> Strip(o.response), attempts |-> 1, logged |-> 0, raised |-> FALSE]
    ELSE [reply |-> << >>, attempts |-> 1, logged |-> 0, raised |-> TRUE]

\* Mutant: the except branch logs and returns an empty reply.
generate_email_reply_empty(email_body, o) ==
    IF o.ok
    THEN [reply |-> Strip(o.response), attempts |-> 1, logged |-> 0, raised |-> FALSE]
    ELSE [reply |-> << >>, attempts |-> 1, logged |-> 1, raised |-> FALSE]

\* generate_email_reply(email_body): one inference_model.generate call, its
\* stripped answer, or the fixed reply when the call raises.
generate_email_reply(email_body, o) ==
    IF o.ok
    THEN [reply |-> Strip(o.response), attempts |-> 1, logged |-> 0, raised |-> FALSE]
    ELSE [reply |-> FALLBACK, attempts |-> 1, logged |-> 1, raised |-> FALSE]

\* ------------------------------------------------------ outbound mail
\* What the SMTP session does: opening it fails (SMTP_SSL or login raises),
\* sendmail fails, or the message is accepted.
SmtpOutcomes == { "session", "transport", "ok" }

\* Mutant: no try/except around the SMTP session, its exception leaves the tool.
send_email_tool_raising(recipient, subject, body, o) ==
    [delivered |-> o = "ok",
     attempts  |-> IF o \in { "transport", "ok" } THEN 1 ELSE 0,
     logged    |-> 0,
     raised    |-> o # "ok"]

\* Mutant: a failed sendmail is tried a second time before giving up.
send_email_tool_retrying(recipient, subject, body, o) ==
    [delivered |-> o = "ok",
     attempts  |-> IF o = "transport" THEN 2 ELSE IF o = "ok" THEN 1 ELSE 0,
     logged    |-> IF o = "ok" THEN 0 ELSE 1,
     raised    |-> FALSE]

\* Mutant: the except branch swallows the error without logging it.
send_email_tool_silent(recipient, subject, body, o) ==
    [delivered |-> o = "ok",
     attempts  |-> IF o \in { "transport", "ok" } THEN 1 ELSE 0,
     logged    |-> 0,
     raised    |-> FALSE]

\* send_email_tool(recipient, subject, body): sendmail is reached only after
\* SMTP_SSL and login succeed; every exception is logged and swallowed.
send_email_tool(recipient, subject, body, o) ==
    [delivered |-> o = "ok",
     attempts  |-> IF o \in { "transport", "ok" } THEN 1 ELSE 0,
     logged    |-> IF o = "ok" THEN 0 ELSE 1,
     raised    |-> FALSE]

\* ---------------------------------------------------------- poll loop
Inc(n) == IF n < CountCap THEN n + 1 ELSE n

NoErrs == [fetch |-> 0, generate |-> 0, send |-> 0, loop |-> 0]

NoHist == [fetched |-> 0, gens |-> 0, sends |-> 0]

NoCall == [tool |-> "none"]

\* The mailbox as mailbox.fetch presents it, in mailbox-native (uid) order.
MailBox == [u \in Uids |-> Message(u, msgs[u])]

\* The process is about to execute the module: nothing is read yet, every
\* message of the mailbox is unread.
InitProcess ==
    /\ config = [n \in EnvNames |-> Unset]
    /\ seen = [u \in Uids |-> FALSE]
    /\ pc = "startup"
    /\ fetchLimit = DefaultLimit
    /\ batch = << >>
    /\ idx = 0
    /\ reply = << >>
    /\ errs = NoErrs
    /\ outcome = "none"
    /\ seen0 = seen
    /\ done = << >>
    /\ hist = [u \in Uids |-> NoHist]
    /\ lastCall = NoCall
    /\ slept = 0

\* The mailbox holds any NumMsgs sample messages; the environment supplies
\* every variable.
Init ==
    /\ msgs \in [Uids -> 1..Len(Samples)]
    /\ env = [n \in EnvNames |-> Provided]
    /\ InitProcess

\* Module level, up to the agents' construction: the environment assignments,
\* the os.getenv reads and the configuration test.
Startup ==
    /\ pc = "startup"
    /\ config' = SetEnviron(env)
    /\ pc' = IF ConfigOk(config') THEN "loop" ELSE "startup_error"
    /\ UNCHANGED << env, msgs, seen, fetchLimit, batch, idx, reply, errs, outcome,
                    seen0, done, hist, lastCall, slept >>

\* Mutant: the loop has no try/except, the exception ends the process.
CycleRaisedFatal(why) ==
    /\ pc' = "dead"
    /\ outcome' = why
    /\ UNCHANGED errs

\* Mutant: time.sleep sits inside the try block after the run, so a run that
\* raises skips it and the next iteration starts at once.
CycleRaisedNoSleep(why) ==
    /\ pc' = "loop"
    /\ outcome' = why
    /\ errs' = [errs EXCEPT !.loop = @ + 1]

\* `except Exception as e: logging.error(...)` of the while loop: an exception
\* leaving manager_agent.run ends the cycle, is logged, and the loop sleeps.
CycleRaised(why) ==
    /\ pc' = "sleep"
    /\ outcome' = why
    /\ errs' = [errs EXCEPT !.loop = @ + 1]

\* Top of `while True`: manager_agent.run(task) is entered.
StartCycle ==
    /\ pc = "loop"
    /\ pc' = "fetch"
    /\ outcome' = "running"
    /\ seen0' = seen
    /\ slept' = 0
    /\ UNCHANGED << env, config, msgs, seen, fetchLimit, batch, idx, reply, errs, done, hist, lastCall >>

\* The task's first step: the agent calls fetch_support_emails(limit).
Fetch ==
    /\ pc = "fetch"
    /\ \E lim \in Limits, fail \in FailPoints :
          LET r == fetch_support_emails(MailBox, seen, lim, fail) IN
          /\ seen' = r.seen
          /\ fetchLimit' = lim
          /\ lastCall' = [tool |-> "fetch",
                          failed |-> IF r.logged = 1 \/ r.raised
                                     THEN fail ELSE << "none", 0 >>,
                          raised |-> r.raised, returned |-> r.batch]
          /\ IF r.raised
             THEN /\ CycleRaised("tool_error")
                  /\ UNCHANGED << batch, idx, hist >>
             ELSE /\ batch' = r.batch
                  /\ idx' = 1
                  /\ hist' = [u \in Uids |->
                                IF \E k \in 1..Len(r.batch) : r.batch[k].uid = u
                                THEN [hist[u] EXCEPT !.fetched = Inc(@)]
                                ELSE hist[u]]
                  /\ errs' = [errs EXCEPT !.fetch = @ + r.logged]
                  /\ pc' = IF r.batch = << >> THEN "finish" ELSE "generate"
                  /\ UNCHANGED outcome
    /\ UNCHANGED << env, config, msgs, reply, seen0, done, slept >>

\* The task's second step, per fetched email: generate_email_reply(body).
Generate ==
    /\ pc = "generate"
    /\ \E o \in ModelOutcomes :
          LET e == batch[idx]
              r == generate_email_reply(e.body, o)
          IN
          /\ lastCall' = [tool |-> "generate", uid |-> e.uid, ok |-> o.ok,
                          response |-> o.response, reply |-> r.reply,
                          attempts |-> r.attempts, raised |-> r.raised]
          /\ hist' = [hist EXCEPT ![e.uid].gens = Inc(@)]
          /\ done' = Append(done, [uid |-> e.uid,
                                   gen |-> IF r.raised THEN "raised"
                                           ELSE IF o.ok THEN "ok" ELSE "fallback",
                                   sent |-> "none", body |-> << >>])
          /\ IF r.raised
             THEN /\ CycleRaised("tool_error")
                  /\ UNCHANGED reply
             ELSE /\ reply' = r.reply
                  /\ errs' = [errs EXCEPT !.generate = @ + r.logged]
                  /\ pc' = "send"
                  /\ UNCHANGED outcome
    /\ UNCHANGED << env, config, msgs, seen, fetchLimit, batch, idx, seen0, slept >>

SendStatus(r) == IF r.raised THEN "raised" ELSE IF r.delivered THEN "ok" ELSE "failed"

\* The task's third step, per fetched email: send_email_tool(from, subject, reply).
Send ==
    /\ pc = "send"
    /\ \E o \in SmtpOutcomes :
          LET e == batch[idx]
              r == send_email_tool(e.from, e.subject, reply, o)
          IN
          /\ lastCall' = [tool |-> "send", uid |-> e.uid, smtp |-> o,
                          attempts |-> r.attempts, raised |-> r.raised,
                          logged |-> r.logged]
          /\ hist' = [hist EXCEPT ![e.uid].sends = Inc(@)]
          /\ done' = [done EXCEPT ![idx].sent = SendStatus(r), ![idx].body = reply]
          /\ IF r.raised
             THEN /\ CycleRaised("tool_error")
                  /\ UNCHANGED idx
             ELSE /\ errs' = [errs EXCEPT !.send = @ + r.logged]
                  /\ idx' = idx + 1
                  /\ pc' = IF idx < Len(batch) THEN "generate" ELSE "finish"
                  /\ UNCHANGED outcome
    /\ UNCHANGED << env, config, msgs, seen, fetchLimit, batch, reply, seen0, slept >>

\* manager_agent.run(task) returns normally.
FinishCycle ==
    /\ pc = "finish"
    /\ pc' = "sleep"
    /\ outcome' = "ok"
    /\ UNCHANGED << env, config, msgs, seen, fetchLimit, batch, idx, reply, errs, seen0, done, hist, lastCall, slept >>

\* manager_agent.run(task) raises on its own account (the agent framework or
\* its model calls fail) at any point of the run.
AgentRaise ==
    /\ pc \in { "fetch", "generate", "send", "finish" }
    /\ CycleRaised("agent_error")
    /\ UNCHANGED << env, config, msgs, seen, fetchLimit, batch, idx, reply, seen0, done, hist, lastCall, slept >>

\* time.sleep(60), then the next iteration of `while True`; what the finished
\* run left behind (its locals, its log lines) is dropped.
Sleep ==
    /\ pc = "sleep"
    /\ pc' = "loop"
    /\ outcome' = "none"
    /\ errs' = NoErrs
    /\ seen0' = seen
    /\ fetchLimit' = DefaultLimit
    /\ batch' = << >>
    /\ idx' = 0
    /\ reply' = << >>
    /\ done' = << >>
    /\ lastCall' = NoCall
    /\ slept' = slept + PollInterval
    /\ UNCHANGED << env, config, msgs, seen, hist >>

Next ==
    \/ Startup
    \/ StartCycle
    \/ Fetch
    \/ Generate
    \/ Send
    \/ FinishCycle
    \/ AgentRaise
    \/ Sleep

Spec == Init /\ [][Next]_vars

\* One mailbox for the liveness checks: the samples in order, over and over.
LiveInit == Init /\ msgs = [u \in Uids |-> ((u - 1) % Len(Samples)) + 1]

\* The loop when manager_agent.run never raises on its own account.
NextNoAbort ==
    \/ Startup
    \/ StartCycle
    \/ Fetch
    \/ Generate
    \/ Send
    \/ FinishCycle
    \/ Sleep

\* A fetch that meets no connection or protocol error.
FetchClean == Fetch /\ lastCall'.failed = << "none", 0 >>

\* A fair poll loop whose fetches succeed again and again: the loop keeps
\* stepping, no run is aborted, and a fetch that can succeed infinitely often
\* does succeed infinitely often.
FairSpec ==
    LiveInit /\ [][NextNoAbort]_vars /\ WF_vars(NextNoAbort) /\ SF_vars(FetchClean)

\* Any environment, one mailbox: the process from its very start.
StartInit ==
    /\ msgs = [u \in Uids |-> ((u - 1) % Len(Samples)) + 1]
    /\ env \in Environments
    /\ InitProcess

StartSpec == StartInit /\ [][Next]_vars

\* The loop is a sequential program that keeps executing: whenever a step is
\* possible, one is eventually taken.
LiveSpec == LiveInit /\ [][Next]_vars /\ WF_vars(Next)

\* ------------------------------------------------------------ claims
\* s contains one of the keywords when compared case-insensitively.
HasKeyword(s) ==
    \E w \in Keywords : \E i \in 1..Len(s) :
        /\ i + Len(w) - 1 <= Len(s)
        /\ \A j \in 1..Len(w) : LowerChar(s[i + j - 1]) = w[j]

\* r is s without its leading and trailing whitespace.
IsTrimOf(r, s) ==
    \E a \in 0..Len(s), b \in 0..Len(s) :
        /\ a + Len(r) + b = Len(s)
        /\ \A i \in 1..a : s[i] \in Whitespace
        /\ \A i \in 1..b : s[Len(s) - i + 1] \in Whitespace
        /\ \A i \in 1..Len(r) : r[i] = s[a + i]
        /\ r # << >> => (r[1] \notin Whitespace /\ r[Len(r)] \notin Whitespace)

\* Uids of the unread messages that pass the keyword filter.
UnreadSupport == { u \in Uids : ~seen[u] /\ IsSupport(MailBox[u]) }

\* manager_agent.run has returned, normally or not.
CycleOver == pc = "sleep"

\* C1: a fetch with a positive limit returns at most limit messages, and the
\* content of every returned message contains help, issue or problem when
\* compared case-insensitively.
C1_FetchBoundedAndFiltered ==
    (lastCall.tool = "fetch" /\ fetchLimit >= 1) =>
        /\ Len(lastCall.returned) <= fetchLimit
        /\ \A k \in 1..Len(lastCall.returned) : HasKeyword(lastCall.returned[k].body)

\* C1 witness: a fetch returned exactly limit = 2 messages, one of them matched
\* only through lower-casing, and a matching unread message is left behind.
C1_Witness ==
    /\ lastCall.tool = "fetch"
    /\ fetchLimit = 2
    /\ Len(lastCall.returned) = 2
    /\ \E k \in 1..2 : \A w \in Keywords : ~Contains(lastCall.returned[k].body, w)
    /\ UnreadSupport # {}

\* C2: every message a fetch returned is marked read when the call returns and
\* stays marked read through the generate and send steps, whatever they do.
C2_ReturnedStayRead ==
    \A u \in Uids : hist[u].fetched > 0 => seen[u]

\* C2 witness: a returned message whose reply was generated by fallback and
\* whose send failed is still marked read after the cycle.
C2_Witness ==
    /\ CycleOver
    /\ \E k \in 1..Len(done) :
          /\ done[k].gen = "fallback"
          /\ done[k].sent = "failed"
          /\ seen[done[k].uid]

\* C3: over all cycles a message is returned by at most one fetch, and at most
\* one reply is generated and at most one send made for it.
C3_AtMostOnce ==
    \A u \in Uids :
        /\ hist[u].fetched <= 1
        /\ hist[u].gens <= 1
        /\ hist[u].sends <= 1

\* C3 witness: a later cycle's fetch has returned other messages while a message
\* replied to in an earlier cycle is still counted once.
C3_Witness ==
    /\ lastCall.tool = "fetch"
    /\ lastCall.returned # << >>
    /\ \E u \in Uids :
          /\ hist[u].sends = 1
          /\ hist[u].fetched = 1
          /\ \A k \in 1..Len(batch) : batch[k].uid # u

CycleFailed == outcome \in { "agent_error", "tool_error" }

\* C5: a cycle that raises is logged by the loop, which then sleeps and starts
\* another cycle; whatever the cycles do, raising every time included, a new
\* cycle is started again and again.
C5_LoopNeverStops ==
    /\ [](CycleFailed => (pc = "sleep" /\ errs.loop = 1))
    /\ (CycleFailed ~> (pc = "fetch"))
    /\ []<>(pc = "fetch")

\* C5 witness: a cycle raised right at its start, after an earlier cycle had
\* already raised between its fetch and the reply to a fetched message.
C5_Witness ==
    /\ CycleFailed
    /\ lastCall = NoCall
    /\ \E u \in Uids : hist[u].fetched = 1 /\ hist[u].gens = 0

\* C6: a generate_email_reply call never raises and makes exactly one endpoint
\* attempt; when the endpoint fails it returns the fixed fallback string, and
\* otherwise the endpoint's answer without leading and trailing whitespace.
C6_GenerateNeverRaises ==
    lastCall.tool = "generate" =>
        /\ ~lastCall.raised
        /\ lastCall.attempts = 1
        /\ ~lastCall.ok => lastCall.reply = FALLBACK
        /\ lastCall.ok => IsTrimOf(lastCall.reply, lastCall.response)
        /\ outcome = "running" => reply = lastCall.reply

\* C6 witness: the endpoint answered with surrounding whitespace that the call
\* trimmed, after an earlier call of the same cycle had fallen back.
C6_Witness ==
    /\ lastCall.tool = "generate"
    /\ lastCall.ok
    /\ lastCall.reply # lastCall.response
    /\ Len(done) = 2
    /\ done[1].gen = "fallback"
    /\ done[1].body = FALLBACK

\* C7: a send_email_tool call never raises, whether opening the session or
\* transmitting fails, and calls sendmail at most once; the run goes on
\* after it.
C7_SendNeverRaises ==
    lastCall.tool = "send" =>
        /\ ~lastCall.raised
        /\ lastCall.attempts <= 1
        /\ outcome = "running" => pc \in { "generate", "finish" }

\* C7 witness: a send whose transmission failed returned and the run moved on
\* to the next candidate.
C7_Witness ==
    /\ lastCall.tool = "send"
    /\ lastCall.smtp = "transport"
    /\ lastCall.attempts = 1
    /\ pc = "generate"

\* A cycle run with a positive limit has ended by returning, with no error
\* logged anywhere.
CleanCycleOver == CycleOver /\ outcome = "ok" /\ errs = NoErrs /\ fetchLimit >= 1

\* C8 as claimed: after a cycle without failures there is one generate and one
\* send per fetched candidate (none when nothing matched), every candidate is
\* marked read, and every message that was unread and does not pass the
\* keyword filter is still unread.
C8_CleanCycleEffects ==
    CleanCycleOver =>
        /\ Len(done) = Len(batch)
        /\ \A k \in 1..Len(batch) :
              /\ IsSupport(MailBox[batch[k].uid])
              /\ done[k].uid = batch[k].uid
              /\ done[k].gen = "ok"
              /\ done[k].sent = "ok"
              /\ seen[batch[k].uid]
        /\ (\A u \in Uids : seen0[u] \/ ~IsSupport(MailBox[u])) => batch = << >>
        /\ \A u \in Uids : (~seen0[u] /\ ~IsSupport(MailBox[u])) => ~seen[u]

FailedSends == { k \in 1..Len(done) : done[k].sent = "failed" }

\* C10: failed sends never make the run raise; the candidates stay marked
\* read; the log holds one send error per failed send; and a message whose
\* send failed is never sent to again, in this cycle or a later one.
C10_FailedSendsDropped ==
    /\ outcome # "tool_error"
    /\ \A k \in 1..Len(batch) : seen[batch[k].uid]
    /\ pc # "send" => errs.send = Cardinality(FailedSends)
    /\ \A k \in FailedSends : hist[done[k].uid].sends = 1
    /\ \A u \in Uids : hist[u].sends <= 1

\* C10 witness: a cycle over two or more candidates returned although every
\* send failed, with as many send errors logged as candidates.
C10_Witness ==
    /\ outcome = "ok"
    /\ Len(batch) >= 2
    /\ Cardinality(FailedSends) = Len(batch)
    /\ errs.send = Len(batch)

\* The text the keyword test looks at: the message text, or the subject when
\* the text is empty.
ContentOf(m) == IF Len(m.text) > 0 THEN m.text ELSE m.subject

\* Uids that were unread when the cycle's fetch began and whose content has a
\* keyword.
Matching0 == { u \in Uids : ~seen0[u] /\ HasKeyword(ContentOf(MailBox[u])) }

\* The uids of a batch, as a set.
UidsOf(b) == { b[k].uid : k \in 1..Len(b) }

\* The batch lists its messages in rising uid order, each once.
InMailboxOrder(b) == \A j, k \in 1..Len(b) : j < k => b[j].uid < b[k].uid

\* The first n uids of S in mailbox order (the first one when n <= 0, which is
\* where fetch_support_emails stops for such a limit).
FirstOf(S, n) ==
    { u \in S : Cardinality({ v \in S : v <= u }) <= (IF n >= 1 THEN n ELSE 1) }

\* C11: a connection or protocol error at login, at listing, or at reading or
\* flagging some message aborts the fetch without raising; the call logs one
\* error and returns exactly the candidates collected before the error, all of
\* them marked read, and the run goes on with that partial batch.
C11_FetchErrorYieldsPartialBatch ==
    (lastCall.tool = "fetch" /\ lastCall.failed # << "none", 0 >>) =>
        /\ ~lastCall.raised
        /\ outcome # "tool_error"
        /\ errs.fetch = 1
        /\ InMailboxOrder(lastCall.returned)
        /\ UidsOf(lastCall.returned) =
              (IF lastCall.failed[1] \in { "login", "list" } THEN {}
               ELSE FirstOf({ u \in Matching0 : u < lastCall.failed[2] }, fetchLimit))
        /\ \A u \in UidsOf(lastCall.returned) : seen[u]
        /\ outcome = "running" =>
              (batch = lastCall.returned
               /\ pc = (IF batch = << >> THEN "finish" ELSE "generate"))

\* C11 witness: flagging a later message failed after one candidate had been
\* collected; the call returned that one candidate, marked read.
C11_Witness ==
    /\ lastCall.tool = "fetch"
    /\ lastCall.failed[1] = "flag"
    /\ Len(lastCall.returned) = 1
    /\ seen[lastCall.returned[1].uid]
    /\ pc = "generate"

\* A required value is missing from the environment: the mailbox address,
\* the mailbox credential, every one of the model credentials, the model base
\* address or the model identifier.
MissingRequired(e) ==
    \/ e["EMAIL_USER"] = Unset
    \/ e["EMAIL_PASS"] = Unset
    \/ (e["MODEL_API_KEY"] = Unset /\ e["API_KEY"] = Unset /\ e["TOGETHER_API_KEY"] = Unset)
    \/ e["MODEL_API_BASE"] = Unset
    \/ e["MODEL_NAME"] = Unset

\* C12 as claimed: a process started without a required configuration value
\* ends in the startup error and never reaches the poll loop.
C12_RefusesToStartUnconfigured ==
    (pc # "startup" /\ MissingRequired(env)) => pc = "startup_error"

\* C13: the loop alternates between running a cycle and sleeping. A run that
\* ends, by returning or by raising, goes to the sleep; the only step after it
\* is one sleep of the fixed interval; the top of the loop is reached only from
\* that sleep (or from startup, for the first cycle); and a run starts only
\* from the top of the loop, when no run is in progress.
C13_SleepBetweenCycles ==
    [][ /\ (outcome = "running" /\ outcome' # "running") => (pc' = "sleep" /\ slept' = 0)
        /\ pc = "sleep" => (pc' = "loop" /\ slept' = PollInterval /\ outcome' = "none")
        /\ (pc' = "loop" /\ pc # "loop") => pc \in { "sleep", "startup" }
        /\ pc = "loop" => (pc' = "fetch" /\ outcome' = "running")
        /\ (outcome' = "running" /\ outcome # "running") => (pc = "loop" /\ pc' = "fetch")
      ]_vars

\* C13 witness: a new cycle has started after a cycle that raised between its
\* fetch and its first reply, and after the sleep that followed it.
C13_Witness ==
    /\ pc = "fetch"
    /\ outcome = "running"
    /\ slept = 0
    /\ \E u \in Uids : hist[u].fetched = 1 /\ hist[u].gens = 0

\* A fetch has just returned without having met an error.
FetchReturnedClean == lastCall.tool = "fetch" /\ lastCall.failed = << "none", 0 >>

\* C14: a fetch without failures and with a positive limit returns, in mailbox
\* order, exactly the first min(limit, k) of the k matching unread messages;
\* the matching messages after them are not returned and are still unread.
C14_FirstLimitMatching ==
    (FetchReturnedClean /\ fetchLimit >= 1) =>
        /\ InMailboxOrder(lastCall.returned)
        /\ UidsOf(lastCall.returned) = FirstOf(Matching0, fetchLimit)
        /\ Len(lastCall.returned) =
              (IF Cardinality(Matching0) < fetchLimit
               THEN Cardinality(Matching0) ELSE fetchLimit)
        /\ \A u \in Matching0 \ UidsOf(lastCall.returned) : ~seen[u]

\* C14 witness: three messages matched, the limit was 2, the first two were
\* returned and the third is still unread.
C14_Witness ==
    /\ FetchReturnedClean
    /\ fetchLimit = 2
    /\ Cardinality(Matching0) = 3
    /\ UidsOf(lastCall.returned) = { 1, 2 }
    /\ ~seen[3]

\* C15: the content of a message is its text when that is not empty and its
\* subject otherwise; a fetch returns a message only if that content has a
\* keyword, with that content as the body, and a fetch that ran through the
\* whole mailbox returned every unread message whose content has one. A
\* message with keyword-free text is not returned even when its subject has a
\* keyword.
C15_CandidateIffContentMatches ==
    lastCall.tool = "fetch" =>
        /\ \A k \in 1..Len(lastCall.returned) :
              LET m == MailBox[lastCall.returned[k].uid] IN
              /\ ~seen0[m.uid]
              /\ HasKeyword(ContentOf(m))
              /\ lastCall.returned[k].body = ContentOf(m)
              /\ lastCall.returned[k].subject = m.subject
              /\ lastCall.returned[k].from = m.from_
        /\ (FetchReturnedClean /\ Len(lastCall.returned) < fetchLimit) =>
              UidsOf(lastCall.returned) = Matching0
        /\ \A u \in UidsOf(lastCall.returned) :
              ~(Len(MailBox[u].text) > 0 /\ ~HasKeyword(MailBox[u].text))

\* C15 witness: a fetch over the whole mailbox returned a message without text
\* through its subject, and passed over an unread message whose subject has a
\* keyword but whose text has none.
C15_Witness ==
    /\ FetchReturnedClean
    /\ Len(lastCall.returned) < fetchLimit
    /\ \E k \in 1..Len(lastCall.returned) :
          /\ MailBox[lastCall.returned[k].uid].text = << >>
          /\ lastCall.returned[k].body = MailBox[lastCall.returned[k].uid].subject
    /\ \E u \in Uids \ UidsOf(lastCall.returned) :
          /\ ~seen0[u]
          /\ HasKeyword(MailBox[u].subject)
          /\ MailBox[u].text # << >>

C16_MarkedReadEqualsReturned ==
    lastCall.tool = "fetch" =>
        { u \in Uids : ~seen0[u] /\ seen[u] } = UidsOf(lastCall.returned)

\* C17 as claimed: every matching unread message of the mailbox is eventually
\* returned by a fetch and has a send attempted for it.
C17_EveryMatchEventuallySent ==
    \A u \in Uids :
        (pc = "loop" /\ ~seen[u] /\ HasKeyword(ContentOf(MailBox[u])))
            ~> (hist[u].fetched > 0 /\ hist[u].sends > 0)

====
